---- MODULE Spec2Model ----
(***************************************************************************)
(* Model of the Viz conversational data agent: the dialogue controller     *)
(* (src/src/chatbot.py, ChatSession) on top of the session model / query   *)
(* compiler (src/src/data_agent.py, DataAgent) and the dataset catalog     *)
(* (src/src/dataset_registry.py).                                          *)
(*                                                                         *)
(* Texts are TLA+ strings, i.e. sequences of characters; the Python string *)
(* methods and regular expressions the code uses are defined below on      *)
(* characters.  A Python dict is a function whose DOMAIN is its key set;   *)
(* an insertion-ordered dict whose order is observable (the filters) is a  *)
(* sequence of <<key, value>> entries.                                     *)
(***************************************************************************)
EXTENDS Integers, Sequences, FiniteSets, TLC

(***************************************************************************)
(* Characters and the str methods used by the code                         *)
(***************************************************************************)
Ch(s, i) == SubSeq(s, i, i)

UPPERCASE == "ABCDEFGHIJKLMNOPQRSTUVWXYZ"

LOWERCASE == "abcdefghijklmnopqrstuvwxyz"

DIGITS == "0123456789"

CharsOf(s) == {Ch(s, i) : i \in 1..Len(s)}

UpperSet == CharsOf(UPPERCASE)

LowerSet == CharsOf(LOWERCASE)

DigitSet == CharsOf(DIGITS)

ToLower == [c \in UpperSet |-> Ch(LOWERCASE, CHOOSE i \in 1..Len(UPPERCASE) : Ch(UPPERCASE, i) = c)]

ToUpper == [c \in LowerSet |-> Ch(UPPERCASE, CHOOSE i \in 1..Len(LOWERCASE) : Ch(LOWERCASE, i) = c)]

\* \s of the regular expressions, and what str.strip() removes
IsSpace(c) == c = " "

\* \w of the regular expressions
IsWordChar(c) == c \in UpperSet \/ c \in LowerSet \/ c \in DigitSet \/ c = "_"

RECURSIVE lower(_)
lower(s) == IF s = "" THEN ""
            ELSE (IF Head(s) \in UpperSet THEN ToLower[Head(s)] ELSE Head(s)) \o lower(Tail(s))

RECURSIVE upper(_)
upper(s) == IF s = "" THEN ""
            ELSE (IF Head(s) \in LowerSet THEN ToUpper[Head(s)] ELSE Head(s)) \o upper(Tail(s))

RECURSIVE lstrip(_)
lstrip(s) == IF s # "" /\ IsSpace(Head(s)) THEN lstrip(Tail(s)) ELSE s

RECURSIVE rstrip(_)
rstrip(s) == IF s # "" /\ IsSpace(Ch(s, Len(s))) THEN rstrip(SubSeq(s, 1, Len(s) - 1)) ELSE s

strip(s) == rstrip(lstrip(s))

\* sub in s
Contains(s, sub) == \E i \in 1..(Len(s) - Len(sub) + 1) : SubSeq(s, i, i + Len(sub) - 1) = sub

startswith(s, prefix) == Len(s) >= Len(prefix) /\ SubSeq(s, 1, Len(prefix)) = prefix

\* index of the first occurrence of the one-character separator, 0 if none
FindChar(s, c) == IF \E i \in 1..Len(s) : Ch(s, i) = c
                  THEN CHOOSE i \in 1..Len(s) : Ch(s, i) = c /\ \A j \in 1..(i - 1) : Ch(s, j) # c
                  ELSE 0

\* s.split(c, 1): at most two parts
split1(s, c) == LET i == FindChar(s, c)
                IN  IF i = 0 THEN <<s>> ELSE <<SubSeq(s, 1, i - 1), SubSeq(s, i + 1, Len(s))>>

\* s.split(c): every part, empty ones included
RECURSIVE split(_, _)
split(s, c) == LET i == FindChar(s, c)
               IN  IF i = 0 THEN <<s>> ELSE <<SubSeq(s, 1, i - 1)>> \o split(SubSeq(s, i + 1, Len(s)), c)

\* [item.strip() for item in value.split(",") if item.strip()]
RECURSIVE StripNonEmpty(_)
StripNonEmpty(items) == IF items = <<>> THEN <<>>
                        ELSE (IF strip(Head(items)) # "" THEN <<strip(Head(items))>> ELSE <<>>)
                             \o StripNonEmpty(Tail(items))

comma_list(value) == StripNonEmpty(split(value, ","))

\* ", ".join(items)
RECURSIVE join(_, _)
join(sep, items) == IF items = <<>> THEN ""
                    ELSE IF Len(items) = 1 THEN items[1]
                    ELSE items[1] \o sep \o join(sep, Tail(items))

\* str(n) of a natural number
RECURSIVE NatToStr(_)
NatToStr(n) == IF n < 10 THEN Ch(DIGITS, n + 1) ELSE NatToStr(n \div 10) \o Ch(DIGITS, (n % 10) + 1)

(***************************************************************************)
(* Dataset catalog (dataset_registry.py)                                   *)
(***************************************************************************)
Column(n, t, r) == [name |-> n, type |-> t, role |-> r]

DATASETS ==
    ("subscribers" :> [name |-> "subscribers", table |-> "subscribers",
        columns |-> << Column("user_id", "uuid", "identifier"),
                       Column("region", "string", "category"),
                       Column("plan_type", "string", "category"),
                       Column("join_date", "date", "temporal"),
                       Column("status", "string", "category"),
                       Column("monthly_spend", "numeric", "measure") >>,
        related |-> <<"payments", "logins">>,
        default_order_by |-> "join_date DESC"])
 @@ ("payments" :> [name |-> "payments", table |-> "payments",
        columns |-> << Column("payment_id", "uuid", "identifier"),
                       Column("user_id", "uuid", "identifier"),
                       Column("amount", "numeric", "measure"),
                       Column("currency", "string", "category"),
                       Column("payment_date", "date", "temporal"),
                       Column("status", "string", "category") >>,
        related |-> <<"subscribers">>,
        default_order_by |-> "payment_date DESC"])
 @@ ("logins" :> [name |-> "logins", table |-> "logins",
        columns |-> << Column("user_id", "uuid", "identifier"),
                       Column("login_date", "date", "temporal"),
                       Column("login_count", "numeric", "measure"),
                       Column("device_type", "string", "category"),
                       Column("region", "string", "category"),
                       Column("plan_type", "string", "category") >>,
        related |-> <<"subscribers">>,
        default_order_by |-> "login_date DESC"])
 @@ ("tickets" :> [name |-> "tickets", table |-> "tickets",
        columns |-> << Column("ticket_id", "uuid", "identifier"),
                       Column("user_id", "uuid", "identifier"),
                       Column("opened_at", "timestamp", "temporal"),
                       Column("resolved_at", "timestamp", "temporal"),
                       Column("category", "string", "category"),
                       Column("severity", "string", "category"),
                       Column("status", "string", "category"),
                       Column("response_time_hours", "numeric", "measure") >>,
        related |-> <<"subscribers", "business_units">>,
        default_order_by |-> "opened_at DESC"])
 @@ ("business_units" :> [name |-> "business_units", table |-> "business_units",
        columns |-> << Column("unit_id", "uuid", "identifier"),
                       Column("unit_name", "string", "category"),
                       Column("region", "string", "category"),
                       Column("revenue", "numeric", "measure"),
                       Column("headcount", "numeric", "measure") >>,
        related |-> <<"tickets", "payments">>,
        default_order_by |-> "revenue DESC"])

\* sorted(DATASETS.keys())
list_datasets == <<"business_units", "logins", "payments", "subscribers", "tickets">>

\* {column.name for column in dataset.columns}
ColumnNames(ds) == {DATASETS[ds].columns[i].name : i \in 1..Len(DATASETS[ds].columns)}

\* the Column of that name, as next(... for col in dataset.columns if col.name == name)
ColumnOf(ds, name) == LET cols == DATASETS[ds].columns
                      IN  cols[CHOOSE i \in 1..Len(cols) : cols[i].name = name /\ \A j \in 1..(i - 1) : cols[j].name # name]

(***************************************************************************)
(* Session model (data_agent.py)                                           *)
(*                                                                         *)
(* A FilterValue is [kind, items]: kind "scalar" with one item or "tuple"  *)
(* with the tuple's items; an item is [type, text] with type "str", "int"  *)
(* or "float" and text what Python's str() gives for it.                   *)
(***************************************************************************)
\* state.dataset is None
NoDataset == ""

\* an empty dict
EmptyDict == [k \in {} |-> ""]

\* AgentState()
AgentState == [dataset |-> NoDataset, filters |-> <<>>, visualization |-> EmptyDict,
               dimensions |-> <<>>, measure_specs |-> <<>>]

MeasureSpec(c, a, al) == [column |-> c, aggregation |-> a, alias |-> al]

Str(v) == [type |-> "str", text |-> v]

Scalar(item) == [kind |-> "scalar", items |-> <<item>>]

Tuple(items) == [kind |-> "tuple", items |-> items]

\* the outcome of a call: the state after it and, when it raised, the exception
Returned(st) == [raised |-> "", message |-> "", state |-> st]

\* Faulty variant: the call that raises leaves an empty state behind
Raised_reset(exc, msg, st) == [raised |-> exc, message |-> msg, state |-> AgentState]

Raised(exc, msg, st) == [raised |-> exc, message |-> msg, state |-> st]

RequireDatasetMessage == "A dataset must be selected before performing this operation."

get_dataset_ok(name) == name \in DOMAIN DATASETS

\* Faulty variant: only the filters are cleared
select_dataset_kept(st, dataset_name) ==
    IF ~get_dataset_ok(dataset_name)
    THEN Raised("ValueError", "Unknown dataset '" \o dataset_name \o "'.", st)
    ELSE Returned([st EXCEPT !.dataset = dataset_name, !.filters = <<>>])

select_dataset(st, dataset_name) ==
    IF ~get_dataset_ok(dataset_name)
    THEN Raised("ValueError", "Unknown dataset '" \o dataset_name \o "'.", st)
    ELSE Returned([dataset |-> dataset_name, filters |-> <<>>, visualization |-> EmptyDict,
                   dimensions |-> <<>>, measure_specs |-> <<>>])

\* keys of the filters dict, and the value stored under a key
FilterKeys(filters) == {filters[i][1] : i \in 1..Len(filters)}

FilterGet(filters, key) == filters[CHOOSE i \in 1..Len(filters) : filters[i][1] = key][2]

\* Faulty variant: an existing key is taken out and put back at the end
FilterPut_moved(filters, key, value) ==
    Append(SelectSeq(filters, LAMBDA entry : entry[1] # key), <<key, value>>)

\* Faulty variant: the entry is added even when the key is already there
FilterPut_appended(filters, key, value) == Append(filters, <<key, value>>)

\* filters[key] = value on an insertion-ordered dict: an existing key keeps its place
FilterPut(filters, key, value) ==
    IF key \in FilterKeys(filters)
    THEN [filters EXCEPT ![CHOOSE i \in 1..Len(filters) : filters[i][1] = key] = <<key, value>>]
    ELSE Append(filters, <<key, value>>)

\* Faulty variant: storing a filter clears the chart definition
add_filter_recharted(st, column_name, value) ==
    IF st.dataset = NoDataset THEN Raised("RuntimeError", RequireDatasetMessage, st)
    ELSE IF column_name \notin ColumnNames(st.dataset)
    THEN Raised("ValueError",
                "Column '" \o column_name \o "' is not available on dataset '"
                    \o DATASETS[st.dataset].name \o "'.", st)
    ELSE Returned([st EXCEPT !.filters = FilterPut(st.filters, column_name, value),
                             !.visualization = EmptyDict, !.dimensions = <<>>,
                             !.measure_specs = <<>>])

\* Faulty variant: the column is not checked against the dataset
add_filter_unchecked(st, column_name, value) ==
    IF st.dataset = NoDataset THEN Raised("RuntimeError", RequireDatasetMessage, st)
    ELSE Returned([st EXCEPT !.filters = FilterPut(st.filters, column_name, value)])

add_filter(st, column_name, value) ==
    IF st.dataset = NoDataset THEN Raised("RuntimeError", RequireDatasetMessage, st)
    ELSE IF column_name \notin ColumnNames(st.dataset)
    THEN Raised("ValueError",
                "Column '" \o column_name \o "' is not available on dataset '"
                    \o DATASETS[st.dataset].name \o "'.", st)
    ELSE Returned([st EXCEPT !.filters = FilterPut(st.filters, column_name, value)])

\* f"'{item}'" for the items of a tuple
RECURSIVE QuotedItems(_)
QuotedItems(items) == IF items = <<>> THEN <<>>
                      ELSE <<"'" \o Head(items).text \o "'">> \o QuotedItems(Tail(items))

\* one conjunct of the WHERE clause
Clause(column, value) ==
    IF value.kind = "tuple"
    THEN IF Len(value.items) = 2
         THEN column \o " BETWEEN '" \o value.items[1].text \o "' AND '" \o value.items[2].text \o "'"
         ELSE column \o " IN (" \o join(", ", QuotedItems(value.items)) \o ")"
    ELSE IF value.items[1].type = "str"
         THEN column \o " = '" \o value.items[1].text \o "'"
         ELSE column \o " = " \o value.items[1].text

RECURSIVE Clauses(_)
Clauses(filters) == IF filters = <<>> THEN <<>>
                    ELSE <<Clause(Head(filters)[1], Head(filters)[2])>> \o Clauses(Tail(filters))

\* Faulty variant of build_where_clause: the filters are left out of the query.
build_where_clause_dropped(st) == ""

build_where_clause(st) ==
    IF st.filters = <<>> THEN "" ELSE " WHERE " \o join(" AND ", Clauses(st.filters))

\* Faulty variant: the measures are left out of the SELECT list
MeasureParts_bare(specs) == <<>>

RECURSIVE MeasureParts(_)
MeasureParts(specs) ==
    IF specs = <<>> THEN <<>>
    ELSE <<Head(specs).aggregation \o "(" \o Head(specs).column \o ") AS " \o Head(specs).alias>>
         \o MeasureParts(Tail(specs))

DefaultLimit == 100

\* requires a dataset (the callers below check it)
build_sql_query(st, limit) ==
    LET dataset      == DATASETS[st.dataset]
        where_clause == build_where_clause(st)
    IN  IF st.measure_specs # <<>>
        THEN LET select_parts  == st.dimensions \o MeasureParts(st.measure_specs)
                 select_clause == IF select_parts # <<>> THEN join(", ", select_parts) ELSE "*"
                 group_clause  == IF st.dimensions # <<>>
                                  THEN " GROUP BY " \o join(", ", st.dimensions) ELSE ""
                 order_clause  == IF st.dimensions # <<>>
                                  THEN " ORDER BY " \o join(", ", st.dimensions) ELSE ""
             IN  "SELECT " \o select_clause \o " FROM " \o dataset.table \o where_clause
                     \o group_clause \o order_clause \o " LIMIT " \o NatToStr(limit) \o ";"
        ELSE LET order_clause == IF dataset.default_order_by # ""
                                 THEN " ORDER BY " \o dataset.default_order_by ELSE ""
             IN  "SELECT * FROM " \o dataset.table \o where_clause \o order_clause
                     \o " LIMIT " \o NatToStr(limit) \o ";"

\* [column for column in fields if column not in allowed_columns]
RECURSIVE NotIn(_, _)
NotIn(fields, allowed) ==
    IF fields = <<>> THEN <<>>
    ELSE (IF Head(fields) \notin allowed THEN <<Head(fields)>> ELSE <<>>) \o NotIn(Tail(fields), allowed)

\* Faulty variant: repeated entries are kept
Dedup_all(fields, seen) == fields

\* list(dict.fromkeys(fields)): the first occurrence of each entry, in order
RECURSIVE Dedup(_, _)
Dedup(fields, seen) ==
    IF fields = <<>> THEN <<>>
    ELSE IF Head(fields) \in seen THEN Dedup(Tail(fields), seen)
    ELSE <<Head(fields)>> \o Dedup(Tail(fields), seen \cup {Head(fields)})

\* Faulty variant: median is accepted as well
allowed_aggs_wide == {"sum", "avg", "count", "min", "max", "median"}

allowed_aggs == {"sum", "avg", "count", "min", "max"}

\* a y-measure token as (aggregation, column)
MeasureToken(raw) ==
    IF Contains(raw, ":")
    THEN [agg |-> strip(split1(raw, ":")[1]), column |-> strip(split1(raw, ":")[2])]
    ELSE [agg |-> "sum", column |-> strip(raw)]

\* the while loop that picks a free alias
RECURSIVE FreeAlias(_, _, _)
FreeAlias(alias_base, existing_aliases, counter) ==
    IF (alias_base \o "_" \o NatToStr(counter)) \in existing_aliases
    THEN FreeAlias(alias_base, existing_aliases, counter + 1)
    ELSE alias_base \o "_" \o NatToStr(counter)

\* Faulty variant: the alias is taken even when it is already in use
PickAlias_taken(alias_base, existing_aliases) == alias_base

PickAlias(alias_base, existing_aliases) ==
    IF alias_base \in existing_aliases THEN FreeAlias(alias_base, existing_aliases, 2) ELSE alias_base

\* the loop over y_measures: the measure specs, or the first error raised
RECURSIVE BuildMeasures(_, _, _, _)
BuildMeasures(ds, y_measures, measure_specs, existing_aliases) ==
    IF y_measures = <<>> THEN [error |-> "", specs |-> measure_specs]
    ELSE LET tok       == MeasureToken(Head(y_measures))
             agg_lower == lower(tok.agg)
         IN  IF tok.column \notin ColumnNames(ds)
             THEN [error |-> "Column '" \o tok.column \o "' is not available on dataset '"
                                 \o DATASETS[ds].name \o "'.",
                   specs |-> <<>>]
             ELSE IF agg_lower \notin allowed_aggs
             THEN [error |-> "Aggregation must be one of 'sum', 'avg', 'count', 'min', or 'max'.",
                   specs |-> <<>>]
             ELSE LET alias == PickAlias(agg_lower \o "_" \o tok.column, existing_aliases)
                  IN  BuildMeasures(ds, Tail(y_measures),
                                    Append(measure_specs, MeasureSpec(tok.column, upper(agg_lower), alias)),
                                    existing_aliases \cup {alias})

RECURSIVE Aliases(_)
Aliases(specs) == IF specs = <<>> THEN <<>> ELSE <<Head(specs).alias>> \o Aliases(Tail(specs))

\* breakdowns <<>> stands for None or [], options EmptyDict for None or {}
set_visualization(st, chart_type, x_fields, y_measures, breakdowns, options) ==
    IF st.dataset = NoDataset THEN Raised("RuntimeError", RequireDatasetMessage, st)
    ELSE
    LET ds                 == st.dataset
        allowed_columns    == ColumnNames(ds)
        invalid_dims       == NotIn(x_fields, allowed_columns)
        invalid_breakdowns == NotIn(breakdowns, allowed_columns)
        built              == BuildMeasures(ds, y_measures, <<>>, {})
        spec               == [chart_type |-> chart_type, x_fields |-> x_fields,
                               y_measures |-> Aliases(built.specs), breakdowns |-> breakdowns]
                              @@ (IF options # EmptyDict THEN "options" :> options ELSE EmptyDict)
    IN  IF x_fields = <<>>
        THEN Raised("ValueError", "At least one dimension must be provided for the X axis.", st)
        ELSE IF y_measures = <<>>
        THEN Raised("ValueError",
                    "Specify at least one measure for the Y axis (e.g. 'sum:monthly_spend').", st)
        ELSE IF invalid_dims # <<>>
        THEN Raised("ValueError",
                    "Unknown dimension columns: " \o join(", ", invalid_dims) \o " on dataset '"
                        \o DATASETS[ds].name \o "'.", st)
        ELSE IF invalid_breakdowns # <<>>
        THEN Raised("ValueError",
                    "Unknown breakdown columns: " \o join(", ", invalid_breakdowns) \o " on dataset '"
                        \o DATASETS[ds].name \o "'.", st)
        ELSE IF built.error # ""
        THEN Raised("ValueError", built.error, st)
        ELSE Returned([st EXCEPT !.visualization = spec,
                                 !.dimensions = Dedup(x_fields \o breakdowns, {}),
                                 !.measure_specs = built.specs])

\* the snapshot; requires a dataset (the callers below check it)
describe_state(st) ==
    [dataset |-> DATASETS[st.dataset].name, filters |-> st.filters,
     visualization |-> st.visualization, dimensions |-> st.dimensions,
     metrics |-> st.measure_specs, sql |-> build_sql_query(st, DefaultLimit)]

(***************************************************************************)
(* Dialogue controller helpers (chatbot.py)                                *)
(***************************************************************************)
\* [a-z0-9_]
IsNameChar(c) == c \in LowerSet \/ c \in DigitSet \/ c = "_"

RECURSIVE SkipWhile(_, _)
\* s without its leading run of separators ([^a-z0-9_]) or of spaces
SkipWhile(s, word) ==
    IF s # "" /\ (IF word THEN ~IsNameChar(Head(s)) ELSE IsSpace(Head(s)))
    THEN SkipWhile(Tail(s), word) ELSE s

\* re.split(r"[^a-z0-9_]+", s): the runs of name characters, empty strings at the ends included
RECURSIVE Words(_, _)
Words(s, cur) ==
    IF s = "" THEN <<cur>>
    ELSE IF IsNameChar(Head(s)) THEN Words(Tail(s), cur \o Head(s))
    ELSE <<cur>> \o Words(SkipWhile(s, TRUE), "")

\* the catalog names, keyed by their lower-cased form
options_by_lower == [k \in {lower(list_datasets[i]) : i \in 1..Len(list_datasets)} |->
                        list_datasets[CHOOSE i \in 1..Len(list_datasets) : lower(list_datasets[i]) = k]]

\* Faulty variant of _match_dataset: the text is compared as typed.
_match_dataset_cased(text) ==
    LET words == Words(text, "")
        hits  == {i \in 1..Len(words) : words[i] \in DOMAIN options_by_lower}
    IN  IF hits # {} THEN options_by_lower[words[CHOOSE i \in hits : \A j \in hits : i <= j]]
        ELSE IF text \in DOMAIN options_by_lower THEN options_by_lower[text]
        ELSE NoDataset

\* the dataset the text names, or NoDataset (None)
_match_dataset(text) ==
    LET words == Words(lower(text), "")
        hits  == {i \in 1..Len(words) : words[i] \in DOMAIN options_by_lower}
    IN  IF hits # {} THEN options_by_lower[words[CHOOSE i \in hits : \A j \in hits : i <= j]]
        ELSE IF lower(text) \in DOMAIN options_by_lower THEN options_by_lower[lower(text)]
        ELSE NoDataset

\* the maximal runs of non-space characters of s, in order
RECURSIVE Tokens(_, _)
Tokens(s, cur) ==
    IF s = "" THEN (IF cur = "" THEN <<>> ELSE <<cur>>)
    ELSE IF IsSpace(Head(s)) THEN (IF cur = "" THEN <<>> ELSE <<cur>>) \o Tokens(Tail(s), "")
    ELSE Tokens(Tail(s), cur \o Head(s))

\* the longest suffix of tok made of \w characters
RECURSIVE WordSuffix(_)
WordSuffix(tok) ==
    IF tok = "" \/ ~IsWordChar(Ch(tok, Len(tok))) THEN ""
    ELSE WordSuffix(SubSeq(tok, 1, Len(tok) - 1)) \o Ch(tok, Len(tok))

\* w from its first character that can start an identifier ([a-zA-Z_]); "" if none
RECURSIVE FromIdentStart(_)
FromIdentStart(w) ==
    IF w = "" THEN ""
    ELSE IF Head(w) \in DigitSet THEN FromIdentStart(Tail(w)) ELSE w

\* between_pattern.search(text).  Every \s+ of the pattern sits between two
\* runs of non-space characters, so a match is five consecutive tokens
\* c between s and e (keywords in any case), where the column group is the
\* leftmost identifier that runs to the end of token c; the leftmost match wins.
BetweenMatch(text) ==
    LET toks == Tokens(text, "")
        hits == {k \in 1..(Len(toks) - 4) :
                    /\ FromIdentStart(WordSuffix(toks[k])) # ""
                    /\ lower(toks[k + 1]) = "between"
                    /\ lower(toks[k + 3]) = "and"}
    IN  IF hits = {} THEN [matched |-> FALSE, column |-> "", start |-> "", end |-> ""]
        ELSE LET k == CHOOSE i \in hits : \A j \in hits : i <= j
             IN  [matched |-> TRUE, column |-> FromIdentStart(WordSuffix(toks[k])),
                  start |-> toks[k + 2], end |-> toks[k + 4]]

AllDigits(s) == s # "" /\ \A i \in 1..Len(s) : Ch(s, i) \in DigitSet

Unsigned(s) == IF s # "" /\ Head(s) \in {"+", "-"} THEN Tail(s) ELSE s

RECURSIVE StripZeros(_)
StripZeros(d) == IF Len(d) > 1 /\ Head(d) = "0" THEN StripZeros(Tail(d)) ELSE d

RECURSIVE StripTrailingZeros(_)
StripTrailingZeros(d) ==
    IF Len(d) > 1 /\ Ch(d, Len(d)) = "0" THEN StripTrailingZeros(SubSeq(d, 1, Len(d) - 1)) ELSE d

\* int(s) succeeds: an optional sign and decimal digits
IntOk(s) == AllDigits(Unsigned(s))

\* str(int(s))
IntText(s) == LET d == StripZeros(Unsigned(s))
              IN  IF Head(s) = "-" /\ d # "0" THEN "-" \o d ELSE d

\* float(s) succeeds for an s holding a ".": an optional sign, digits "." digits, one digit at least
FloatOk(s) == LET u == Unsigned(s)
                  p == split1(u, ".")
              IN  /\ Len(p) = 2
                  /\ p[1] \o p[2] # ""
                  /\ p[1] = "" \/ AllDigits(p[1])
                  /\ p[2] = "" \/ AllDigits(p[2])

\* str(float(s))
FloatText(s) == LET p == split1(Unsigned(s), ".")
                IN  (IF Head(s) = "-" THEN "-" ELSE "")
                    \o StripZeros(IF p[1] = "" THEN "0" ELSE p[1]) \o "."
                    \o StripTrailingZeros(IF p[2] = "" THEN "0" ELSE p[2])

\* _cast_value on one literal
CastItem(ds, column_name, text) ==
    IF column_name \notin ColumnNames(ds) THEN Str(text)
    ELSE IF ColumnOf(ds, column_name).type = "numeric"
    THEN IF Contains(text, ".")
         THEN (IF FloatOk(text) THEN [type |-> "float", text |-> FloatText(text)] ELSE Str(text))
         ELSE (IF IntOk(text) THEN [type |-> "int", text |-> IntText(text)] ELSE Str(text))
    ELSE Str(text)

RECURSIVE CastItems(_, _, _)
CastItems(ds, column_name, texts) ==
    IF texts = <<>> THEN <<>>
    ELSE <<CastItem(ds, column_name, Head(texts))>> \o CastItems(ds, column_name, Tail(texts))

\* _parse_filter returned None
NoFilter == [parsed |-> FALSE, column |-> "", value |-> Scalar(Str(""))]

_parse_filter(ds, text) ==
    IF ds = NoDataset THEN NoFilter
    ELSE LET m == BetweenMatch(text)
         IN  IF m.matched
             THEN [parsed |-> TRUE, column |-> m.column,
                   value |-> Tuple(CastItems(ds, m.column, <<m.start, m.end>>))]
             ELSE IF ~Contains(text, "=") /\ ~Contains(text, ":") THEN NoFilter
             ELSE LET parts  == split1(text, IF Contains(text, "=") THEN "=" ELSE ":")
                      column == strip(parts[1])
                      values == comma_list(strip(parts[2]))
                  IN  IF values = <<>> THEN NoFilter
                      ELSE IF Len(values) = 1
                      THEN [parsed |-> TRUE, column |-> column,
                            value |-> Scalar(CastItem(ds, column, values[1]))]
                      ELSE [parsed |-> TRUE, column |-> column,
                            value |-> Tuple(CastItems(ds, column, values))]

\* [a-z_]
IsKeyChar(c) == c \in LowerSet \/ c = "_"

\* the leading run of s of key characters (key TRUE) or of non-space characters
RECURSIVE Run(_, _)
Run(s, key) ==
    IF s # "" /\ (IF key THEN IsKeyChar(Head(s)) ELSE ~IsSpace(Head(s)))
    THEN Head(s) \o Run(Tail(s), key) ELSE ""

Drop(s, n) == SubSeq(s, n + 1, Len(s))

\* re.findall(r"([a-z_]+)\s*=\s*([^\s]+)", s): scanning from the left, a match
\* starts at a run of key characters that is followed by \s* = \s* and a
\* non-space character, takes the whole run of non-space characters as its
\* value, and the scan goes on behind the match.
RECURSIVE FindPairs(_)
FindPairs(s) ==
    IF s = "" THEN <<>>
    ELSE IF ~IsKeyChar(Head(s)) THEN FindPairs(Tail(s))
    ELSE LET key    == Run(s, TRUE)
             after  == SkipWhile(Drop(s, Len(key)), FALSE)
             behind == IF after # "" /\ Head(after) = "=" THEN SkipWhile(Tail(after), FALSE) ELSE ""
             value  == Run(behind, FALSE)
         IN  IF value = "" THEN FindPairs(Drop(s, Len(key)))
             ELSE <<(<<key, value>>)>> \o FindPairs(Drop(behind, Len(value)))

\* {key: value for key, value in parts}: a later pair overwrites an earlier one
RECURSIVE DictOf(_)
DictOf(parts) ==
    IF parts = <<>> THEN EmptyDict
    ELSE LET last == parts[Len(parts)]
         IN  (last[1] :> last[2]) @@ DictOf(SubSeq(parts, 1, Len(parts) - 1))

\* parameters.get(a) or parameters.get(b); "" stands for None (no value is empty)
GetOr(parameters, a, b) ==
    IF a \in DOMAIN parameters THEN parameters[a]
    ELSE IF b \in DOMAIN parameters THEN parameters[b] ELSE ""

\* Faulty variant: heatmap and custom are not chart types
chart_types_few == {"bar", "line", "pie"}

chart_types == {"bar", "line", "pie", "heatmap", "custom"}

recognised_keys == {"chart", "type", "x", "dimensions", "y", "metrics", "breakdowns", "group_by"}

\* _parse_visualisation returned None
NoDirective == [parsed |-> FALSE, chart_type |-> "", x_fields |-> <<>>, y_measures |-> <<>>,
                breakdowns |-> <<>>, options |-> EmptyDict]

\* the payload; breakdowns <<>> and options EmptyDict are the keys left out of it
_parse_visualisation(text) ==
    LET parts           == FindPairs(lower(text))
        parameters      == DictOf(parts)
        chart_type      == GetOr(parameters, "chart", "type")
        x_value         == GetOr(parameters, "x", "dimensions")
        y_value         == GetOr(parameters, "y", "metrics")
        breakdown_value == GetOr(parameters, "breakdowns", "group_by")
    IN  IF parts = <<>> THEN NoDirective
        ELSE IF chart_type = "" \/ x_value = "" \/ y_value = "" THEN NoDirective
        ELSE IF chart_type \notin chart_types THEN NoDirective
        ELSE [parsed |-> TRUE, chart_type |-> chart_type,
              x_fields |-> comma_list(x_value), y_measures |-> comma_list(y_value),
              breakdowns |-> IF breakdown_value # "" THEN comma_list(breakdown_value) ELSE <<>>,
              options |-> [k \in (DOMAIN parameters) \ recognised_keys |-> parameters[k]]]

\* the end-to-end conversation of the specification's section 8
EndToEnd == <<"subscribers", "region=India", "done", "chart=bar x=region y=sum:monthly_spend">>

\* the texts a user types in the model
Inputs ==
    { "", "   ", "help", "?", "quit", " Exit ", "reset", "restart",
      "subscribers", "use Tickets please", "sales",
      "done", "next", "visual",
      "region=India", "join_date between 2025-10-01 and 2025-11-01", "monthly_spend=100",
      "bogus=1", "hello", "my col=5", "region=O'Neil",
      "chart=bar x=region y=sum:monthly_spend", "chart=bar x=region",
      "chart=line x=region,plan_type y=sum:monthly_spend,sum:monthly_spend breakdowns=region",
      "chart=pie x=category y=count:ticket_id style=stacked",
      "Type=Heatmap dimensions=region,,plan_type metrics=avg:monthly_spend group_by=status",
      "chart=scatter x=region y=sum:monthly_spend",
      "refresh", "show", "render", "update", "show chart", "again", "new", "filters", "chart",
      "filter region=India", "filter category=Billing", "filter bogus=1", "filter nonsense",
      "filter region=O'Neil" }

\* message.strip() of every input, and the texts the handlers work on: the
\* stripped inputs and what follows the first space of one (text.split(" ", 1)[1])
Stripped == [m \in Inputs |-> strip(m)]

Texts == {Stripped[m] : m \in Inputs}
         \cup {split1(Stripped[m], " ")[2] : m \in {i \in Inputs : Contains(Stripped[i], " ")}}

\* The functions of a text that the handlers call, tabulated over Texts once
\* (the handlers below look the results up instead of recomputing them in
\* every step).
Lowered == [t \in Texts |-> lower(t)]

MatchedDataset == [t \in Texts |-> _match_dataset(t)]

ParsedFilter == [ds \in (DOMAIN DATASETS) \cup {NoDataset}, t \in Texts |-> _parse_filter(ds, t)]

ParsedVisualisation == [t \in Texts |-> _parse_visualisation(t)]

directive_tokens == {"chart=", "x=", "y=", "metrics=", "dimensions=", "breakdowns="}

\* any(token in lowered for token in {...})
HasDirectiveToken == [t \in Texts |-> \E token \in directive_tokens : Contains(lower(t), token)]

\* lowered.startswith("filter ") and then text.split(" ", 1)[1]
FilterTweak == [t \in Texts |-> IF startswith(lower(t), "filter ") THEN split1(t, " ")[2] ELSE ""]

(***************************************************************************)
(* Collaborators: the query backend (database.py) and the chart renderer   *)
(* (visualization.py).  The database contents are not modelled: whether a  *)
(* well-formed query returns rows is an input of the turn.                 *)
(***************************************************************************)
\* the number of distinct file names the renderer draws from (uuid4 in the code)
MaxPaths == 2

\* self.context.chart_path is None
NoChart == ""

\* rows returned by execute_query: some, or none
RowOutcomes == {"rows", "empty"}

\* a rendering that is attempted saves chart number n, or raises: "error" an
\* exception with a message, "blank_error" one whose str() is empty
RenderOutcomes == {NatToStr(n) : n \in 1..MaxPaths} \cup {"error", "blank_error"}

RECURSIVE AnyQuote(_)
AnyQuote(items) == items # <<>> /\ (Contains(Head(items).text, "'") \/ AnyQuote(Tail(items)))

\* execute_query raises: sqlite rejects a statement in which a quoted literal
\* holds a quote character (the only way a compiled statement is malformed)
QueryRaises(st) ==
    \E i \in 1..Len(st.filters) :
        LET value == st.filters[i][2]
        IN  /\ value.kind = "tuple" \/ value.items[1].type = "str"
            /\ AnyQuote(value.items)

\* render_chart: "error" or "blank_error" when it raises, NoChart for None,
\* else the saved path; rows and outcome are what the database and the drawing
\* turn out to be
render_chart(plt, rows, chart_type, measures, outcome) ==
    IF ~plt THEN "error"
    ELSE IF rows = "empty" \/ measures = <<>> THEN NoChart
    ELSE IF outcome \in {"error", "blank_error"} THEN outcome
    ELSE "chart_" \o chart_type \o "_" \o outcome \o ".png"

\* what execute_query can return and render_chart then answer
RenderAnswers(plt, chart_type, measures) ==
    {[rows |-> rows, rendered |-> render_chart(plt, rows, chart_type, measures, outcome)] :
         rows \in RowOutcomes, outcome \in RenderOutcomes}

(***************************************************************************)
(* Dialogue state machine (chatbot.py, ChatSession)                        *)
(***************************************************************************)
GREETING == "greeting"

DATASET == "dataset"

FILTERS == "filters"

VISUALISATION == "visualisation"

SUMMARY == "summary"

ADJUST == "adjust"

Stages == {GREETING, DATASET, FILTERS, VISUALISATION, SUMMARY, ADJUST}

VARIABLES
    stage,          \* context.stage
    agent,          \* context.agent.state
    chart_path,     \* context.chart_path
    plt_available,  \* visualization.plt is not None (fixed when the module is imported)
    response,       \* what the last call returned (kind "exception": it raised instead)
    turn,           \* the last call: which method, its input, the stage it found, the stages
                    \* it assigned in order, whether it ran the query and the renderer,
                    \* what the query returned and what the renderer did
    script          \* how many lines of EndToEnd the session has been fed, and nothing else,
                    \* since it was started; -1 once it has been fed anything else

vars == <<stage, agent, chart_path, plt_available, response, turn, script>>

\* a response: which message was returned, and the values interpolated into it
Response(kind, text) == [kind |-> kind, text |-> text, sql |-> "", chart |-> ""]

\* what a handler can leave behind: one outcome, and one for each answer of
\* the collaborators in a handler that reaches them
Outcome(st, stg, path, resp, stages, queried, rendered) ==
    {[agent |-> st, stage |-> stg, chart_path |-> path, response |-> resp,
      stages |-> stages, queried |-> queried, rendered |-> rendered, rows |-> "none",
      answer |-> "none"]}

\* what render_chart did: it raised, returned None, or returned a path
AnswerOf(rendered) ==
    IF rendered \in {"error", "blank_error"} THEN "raised"
    ELSE IF rendered = NoChart THEN "nothing" ELSE "path"

\* start(): the stage is set and the greeting returned
start(st, path, stages) ==
    Outcome(st, DATASET, path, Response("greeting", join(", ", list_datasets)),
            Append(stages, DATASET), FALSE, FALSE)

\* Faulty variant: the new context still refers to an artifact
reset_context_charted == start(AgentState, "chart_bar_1.png", <<GREETING>>)

\* self.context = ConversationContext(); return self.start()
reset_context == start(AgentState, NoChart, <<GREETING>>)

\* str(viz.get("chart_type", "bar"))
ChartTypeOf(viz) == IF "chart_type" \in DOMAIN viz THEN viz.chart_type ELSE "bar"

\* Faulty variant of Rendered: a failed rendering keeps the reference of the
\* previous artifact.
Rendered_kept(st, path, summary, rows, rendered, ack, stages) ==
    {[o EXCEPT !.rows = rows, !.answer = AnswerOf(rendered)] :
         o \in Outcome(st, ADJUST, IF AnswerOf(rendered) = "raised" THEN path ELSE rendered,
                       [kind |-> "summary", text |-> ack, sql |-> summary.sql,
                        chart |-> IF rendered = "error" THEN "warning"
                                  ELSE IF AnswerOf(rendered) = "path" THEN "saved" ELSE "none"],
                       Append(stages, ADJUST), TRUE, TRUE)}

\* the end of _summarise_results, from the renderer's answer on: the artifact
\* reference is stored or cleared, the stage set and the summary returned.
\* `if render_error:` tests the message, so an exception with an empty message
\* is reported as "No chart generated", like a None
Rendered(st, path, summary, rows, rendered, ack, stages) ==
    {[o EXCEPT !.rows = rows, !.answer = AnswerOf(rendered)] :
         o \in Outcome(st, ADJUST, IF AnswerOf(rendered) = "path" THEN rendered ELSE NoChart,
                       [kind |-> "summary", text |-> ack, sql |-> summary.sql,
                        chart |-> IF rendered = "error" THEN "warning"
                                  ELSE IF AnswerOf(rendered) = "path" THEN "saved" ELSE "none"],
                       Append(stages, ADJUST), TRUE, TRUE)}

\* describe_state and execute_query raise past the caller; ack is the
\* acknowledgement a filter tweak puts in front of the summary
_summarise_results(st, stg, path, plt, ack, stages) ==
    IF st.dataset = NoDataset
    THEN Outcome(st, stg, path, Response("exception", "RuntimeError"), stages, FALSE, FALSE)
    ELSE IF QueryRaises(st)
    THEN Outcome(st, stg, path, Response("exception", "sqlite3.OperationalError"), stages, TRUE, FALSE)
    ELSE LET summary == describe_state(st)
         IN  UNION {Rendered(st, path, summary, a.rows, a.rendered, ack, stages) :
                        a \in RenderAnswers(plt, ChartTypeOf(st.visualization),
                                            st.measure_specs)}

\* Faulty variant: the filtering stage is entered without a dataset
_handle_dataset_selection_eager(st, stg, path, text) ==
    IF MatchedDataset[text] = NoDataset
    THEN Outcome(st, FILTERS, path, Response("unknown_dataset", join(", ", list_datasets)),
                 <<FILTERS>>, FALSE, FALSE)
    ELSE Outcome(select_dataset(st, MatchedDataset[text]).state, FILTERS, path,
                 Response("dataset_selected", MatchedDataset[text]), <<FILTERS>>, FALSE, FALSE)

_handle_dataset_selection(st, stg, path, text) ==
    IF MatchedDataset[text] = NoDataset
    THEN Outcome(st, stg, path, Response("unknown_dataset", join(", ", list_datasets)),
                 <<>>, FALSE, FALSE)
    ELSE Outcome(select_dataset(st, MatchedDataset[text]).state, FILTERS, path,
                 Response("dataset_selected", MatchedDataset[text]), <<FILTERS>>, FALSE, FALSE)

\* Faulty variant of done_words: "visual" does not end the filtering.
done_words_short == {"done", "next"}

\* the words that end the filtering
done_words == {"done", "next", "visual"}

\* _handle_filtering from the call of add_filter on, given what the call did
Added(stg, path, column, added) ==
    IF added.raised = "ValueError"
    THEN Outcome(added.state, stg, path, Response("error", added.message), <<>>, FALSE, FALSE)
    ELSE IF added.raised # ""
    THEN Outcome(added.state, stg, path, Response("exception", added.raised), <<>>, FALSE, FALSE)
    ELSE Outcome(added.state, stg, path, Response("filter_added", column), <<>>, FALSE, FALSE)

\* _handle_filtering from the parsed filter on
Filtered(st, stg, path, parsed) ==
    IF ~parsed.parsed
    THEN Outcome(st, stg, path, Response("filter_hint", ""), <<>>, FALSE, FALSE)
    ELSE Added(stg, path, parsed.column, add_filter(st, parsed.column, parsed.value))

_handle_filtering(st, stg, path, text) ==
    IF Lowered[text] \in done_words
    THEN Outcome(st, VISUALISATION, path, Response("visualisation_prompt", ""),
                 <<VISUALISATION>>, FALSE, FALSE)
    ELSE Filtered(st, stg, path, ParsedFilter[st.dataset, text])

\* Faulty variant of Visualised: the stage is advanced before the directive
\* is validated.
Visualised_early(stg, path, plt, stages, set) ==
    IF set.raised = "ValueError"
    THEN Outcome(set.state, SUMMARY, path, Response("error", set.message),
                 Append(stages, SUMMARY), FALSE, FALSE)
    ELSE IF set.raised # ""
    THEN Outcome(set.state, stg, path, Response("exception", set.raised), stages, FALSE, FALSE)
    ELSE _summarise_results(set.state, SUMMARY, path, plt, "", Append(stages, SUMMARY))

\* _handle_visualisation from the call of set_visualization on, given what the call did
Visualised(stg, path, plt, stages, set) ==
    IF set.raised = "ValueError"
    THEN Outcome(set.state, stg, path, Response("error", set.message), stages, FALSE, FALSE)
    ELSE IF set.raised # ""
    THEN Outcome(set.state, stg, path, Response("exception", set.raised), stages, FALSE, FALSE)
    ELSE _summarise_results(set.state, SUMMARY, path, plt, "", Append(stages, SUMMARY))

\* _handle_visualisation from the parsed directive on
Directed(st, stg, path, plt, stages, parsed) ==
    IF ~parsed.parsed
    THEN Outcome(st, stg, path, Response("visualisation_hint", ""), stages, FALSE, FALSE)
    ELSE Visualised(stg, path, plt, stages,
                    set_visualization(st, parsed.chart_type, parsed.x_fields, parsed.y_measures,
                                      parsed.breakdowns, parsed.options))

\* stg is the stage the handler runs in, stages the assignments made so far in the turn
_handle_visualisation(st, stg, path, plt, text, stages) ==
    Directed(st, stg, path, plt, stages, ParsedVisualisation[text])

\* Faulty variant of reset_words: "new" is not a reset word.
reset_words_short == {"again", "restart", "reset"}

\* the words that restart the conversation from SUMMARY and ADJUST
reset_words == {"again", "restart", "reset", "new"}

\* Faulty variant of refresh_words: bare "chart" re-runs the summary too.
refresh_words_wide == {"refresh", "show", "show chart", "render", "update", "chart"}

\* the words that re-run the summary
refresh_words == {"refresh", "show", "show chart", "render", "update"}

\* the filter tweak of _handle_adjustment from the call of add_filter on
Tweaked(stg, path, plt, column, added) ==
    IF added.raised = "ValueError"
    THEN Outcome(added.state, stg, path, Response("error", added.message), <<>>, FALSE, FALSE)
    ELSE IF added.raised # ""
    THEN Outcome(added.state, stg, path, Response("exception", added.raised), <<>>, FALSE, FALSE)
    ELSE _summarise_results(added.state, stg, path, plt, column, <<>>)

\* the filter tweak of _handle_adjustment from the parsed filter on
Tweak(st, stg, path, plt, parsed) ==
    IF ~parsed.parsed
    THEN Outcome(st, stg, path, Response("filter_tweak_hint", ""), <<>>, FALSE, FALSE)
    ELSE Tweaked(stg, path, plt, parsed.column,
                 add_filter(st, parsed.column, parsed.value))

_handle_adjustment(st, stg, path, plt, text) ==
    IF Lowered[text] \in reset_words THEN reset_context
    ELSE IF Lowered[text] \in refresh_words
    THEN _summarise_results(st, stg, path, plt, "", <<>>)
    ELSE IF HasDirectiveToken[text]
    THEN _handle_visualisation(st, VISUALISATION, path, plt, text,
                               <<VISUALISATION>>)
    ELSE IF FilterTweak[text] # ""
    THEN Tweak(st, stg, path, plt, ParsedFilter[st.dataset, FilterTweak[text]])
    ELSE IF Lowered[text] = "filters"
    THEN Outcome(st, stg, path, Response("current_filters", ""), <<>>, FALSE, FALSE)
    ELSE IF Lowered[text] = "chart"
    THEN IF path = NoChart
         THEN Outcome(st, stg, path, Response("no_chart_yet", ""), <<>>, FALSE, FALSE)
         ELSE Outcome(st, stg, path, Response("latest_chart", path), <<>>, FALSE, FALSE)
    ELSE Outcome(st, stg, path, Response("adjust_help", ""), <<>>, FALSE, FALSE)

_handle_summary_follow_up(st, stg, path, plt, text) ==
    IF Lowered[text] \in reset_words THEN reset_context
    ELSE _handle_adjustment(st, stg, path, plt, text)

\* Faulty variant of quit_words: "exit" is not recognised.
quit_words_short == {"quit"}

\* the global commands
quit_words == {"quit", "exit"}

help_words == {"help", "?"}

restart_words == {"reset", "restart"}

\* Faulty variant: a text typed before start() is taken as a dataset name
handle_input_unstarted(st, stg, path, plt, message) ==
    LET text    == Stripped[message]
        lowered == Lowered[text]
    IN  IF text = ""
        THEN Outcome(st, stg, path, Response("retry", ""), <<>>, FALSE, FALSE)
        ELSE IF lowered \in quit_words
        THEN Outcome(st, stg, path, Response("goodbye", ""), <<>>, FALSE, FALSE)
        ELSE IF lowered \in help_words
        THEN Outcome(st, stg, path, Response("help", ""), <<>>, FALSE, FALSE)
        ELSE IF lowered \in restart_words THEN reset_context
        ELSE IF stg \in {GREETING, DATASET} THEN _handle_dataset_selection(st, stg, path, text)
        ELSE IF stg = FILTERS THEN _handle_filtering(st, stg, path, text)
        ELSE IF stg = VISUALISATION
        THEN _handle_visualisation(st, stg, path, plt, text, <<>>)
        ELSE IF stg = SUMMARY
        THEN _handle_summary_follow_up(st, stg, path, plt, text)
        ELSE _handle_adjustment(st, stg, path, plt, text)

handle_input(st, stg, path, plt, message) ==
    LET text    == Stripped[message]
        lowered == Lowered[text]
    IN  IF text = ""
        THEN Outcome(st, stg, path, Response("retry", ""), <<>>, FALSE, FALSE)
        ELSE IF lowered \in quit_words
        THEN Outcome(st, stg, path, Response("goodbye", ""), <<>>, FALSE, FALSE)
        ELSE IF lowered \in help_words
        THEN Outcome(st, stg, path, Response("help", ""), <<>>, FALSE, FALSE)
        ELSE IF lowered \in restart_words THEN reset_context
        ELSE IF stg = DATASET THEN _handle_dataset_selection(st, stg, path, text)
        ELSE IF stg = FILTERS THEN _handle_filtering(st, stg, path, text)
        ELSE IF stg = VISUALISATION
        THEN _handle_visualisation(st, stg, path, plt, text, <<>>)
        ELSE IF stg = SUMMARY
        THEN _handle_summary_follow_up(st, stg, path, plt, text)
        ELSE IF stg = ADJUST THEN _handle_adjustment(st, stg, path, plt, text)
        ELSE Outcome(st, stg, path, Response("begin", ""), <<>>, FALSE, FALSE)

NoTurn == [call |-> "none", input |-> "", from |-> GREETING, stages |-> <<>>, queried |-> FALSE,
           rendered |-> FALSE, rows |-> "none", answer |-> "none"]

Init ==
    /\ stage = GREETING
    /\ agent = AgentState
    /\ chart_path = NoChart
    /\ plt_available \in BOOLEAN
    /\ response = Response("none", "")
    /\ turn = NoTurn
    /\ script = -1

\* the state a call leaves behind
Leaves(out, call, input) ==
    /\ stage' = out.stage
    /\ agent' = out.agent
    /\ chart_path' = out.chart_path
    /\ response' = out.response
    /\ turn' = [call |-> call, input |-> input, from |-> stage, stages |-> out.stages,
                queried |-> out.queried, rendered |-> out.rendered, rows |-> out.rows,
                answer |-> out.answer]
    /\ UNCHANGED plt_available

\* run_cli and handle_input call start() on a fresh context only
Start ==
    /\ stage = GREETING
    /\ \E out \in start(agent, chart_path, <<>>) : Leaves(out, "start", "")
    /\ script' = 0

\* one call of handle_input(message); what the backend and the renderer answer
\* is open, and matters only to a turn that reaches them
Turn(message) ==
    \E out \in handle_input(agent, stage, chart_path, plt_available, message) :
        /\ Leaves(out, "handle_input", message)
        /\ script' = IF out.stages # <<>> /\ out.stages[1] = GREETING THEN 0
                     ELSE IF script >= 0 /\ script < Len(EndToEnd) /\ message = EndToEnd[script + 1]
                     THEN script + 1
                     ELSE -1

HandleInput == \E message \in Inputs : Turn(message)

Next == Start \/ HandleInput

Spec == Init /\ [][Next]_vars

(***************************************************************************)
(* The session model on its own (data_agent.py): DataAgent is also called  *)
(* directly, as demo() does, in any order and with any arguments.  agent   *)
(* is the state of the DataAgent; response is what the last call returned  *)
(* or raised and turn.input its arguments; the other variables stay put.   *)
(***************************************************************************)
\* the dataset names passed to select_dataset
DatasetNames == {"subscribers", "tickets", "sales"}

\* the filters passed to add_filter: what _parse_filter makes of these texts
FilterTexts ==
    { "region=India", "region=India,Brazil", "region=India,Brazil,Kenya",
      "monthly_spend=100", "join_date between 2025-10-01 and 2025-11-01",
      "category=Billing" }

FilterArgs ==
    {[column |-> _parse_filter(ds, t).column, value |-> _parse_filter(ds, t).value] :
         ds \in {"subscribers", "tickets"}, t \in FilterTexts}

VizArg(x_fields, y_measures, breakdowns) ==
    [chart_type |-> "bar", x_fields |-> x_fields, y_measures |-> y_measures,
     breakdowns |-> breakdowns, options |-> EmptyDict]

\* the arguments passed to set_visualization
VizArgs ==
    { VizArg(<<>>, <<"sum:monthly_spend">>, <<>>),
      VizArg(<<>>, <<>>, <<>>),
      VizArg(<<"region">>, <<>>, <<>>),
      VizArg(<<"bogus">>, <<>>, <<"bad">>),
      VizArg(<<"bogus", "region", "nope">>, <<"sum:monthly_spend">>, <<>>),
      VizArg(<<"region">>, <<"sum:monthly_spend">>, <<"bad", "region", "worse">>),
      VizArg(<<"bogus">>, <<"sum:monthly_spend">>, <<"bad">>),
      VizArg(<<"bogus">>, <<"median:nothing">>, <<>>),
      VizArg(<<"region", "plan_type">>, <<"sum:monthly_spend", "sum:monthly_spend">>, <<"region">>),
      VizArg(<<"region">>, <<"sum:monthly_spend", "avg:bogus">>, <<>>),
      VizArg(<<"region">>, <<"median:monthly_spend">>, <<>>),
      VizArg(<<"region">>, <<"median:bogus">>, <<>>),
      VizArg(<<"region">>, <<"median:monthly_spend", "sum:bogus">>, <<>>),
      VizArg(<<"region">>, <<"monthly_spend">>, <<>>),
      VizArg(<<"region">>,
             <<"SUM:monthly_spend", "sum: monthly_spend", "Sum:monthly_spend", "count:user_id">>,
             <<>>),
      VizArg(<<"region">>, <<"sum:avg:monthly_spend">>, <<>>),
      VizArg(<<"region", "region">>, <<"avg:monthly_spend">>, <<"plan_type", "plan_type">>),
      VizArg(<<"category">>, <<"count:ticket_id">>, <<"severity", "category">>),
      [VizArg(<<"category">>, <<"count:ticket_id">>, <<>>)
           EXCEPT !.chart_type = "pie", !.options = ("style" :> "stacked")] }

\* the limits passed to build_sql_query; the first is the default
Limits == {DefaultLimit, 5}

\* the arguments of a call, those it does not take left at these values
\* loaded: the state the method was called on had filters, a visualization,
\* dimensions and measure specs; repeated: describe_state was called
\* directly after describe_state
NoArgs == [name |-> "", column |-> "", value |-> Scalar(Str("")), viz |-> VizArg(<<>>, <<>>, <<>>),
           limit |-> 0, loaded |-> FALSE, repeated |-> FALSE]

Loaded(st) ==
    /\ st.filters # <<>>
    /\ st.visualization # EmptyDict
    /\ st.dimensions # <<>>
    /\ st.measure_specs # <<>>

AgentInit ==
    /\ stage = GREETING
    /\ agent = AgentState
    /\ chart_path = NoChart
    /\ plt_available = FALSE
    /\ response = Response("none", "")
    /\ turn = [NoTurn EXCEPT !.input = NoArgs]
    /\ script = -1

\* the state a call of a DataAgent method leaves behind
Called(out, call, args, sql) ==
    /\ agent' = out.state
    /\ response' = [kind |-> IF out.raised = "" THEN "returned" ELSE out.raised,
                    text |-> out.message, sql |-> sql, chart |-> "",
                    snapshot |-> IF call = "describe_state" /\ out.raised = ""
                                 THEN describe_state(agent) ELSE EmptyDict]
    /\ turn' = [NoTurn EXCEPT !.call = call,
                              !.input = [args EXCEPT !.loaded = Loaded(agent),
                                                     !.repeated = (call = "describe_state"
                                                                      /\ turn.call = call)]]
    /\ UNCHANGED <<stage, chart_path, plt_available, script>>

SelectDataset ==
    \E name \in DatasetNames :
        Called(select_dataset(agent, name), "select_dataset", [NoArgs EXCEPT !.name = name], "")

AddFilter ==
    \E f \in FilterArgs \cup {[column |-> "bogus", value |-> Scalar(Str("1"))]} :
        Called(add_filter(agent, f.column, f.value), "add_filter",
               [NoArgs EXCEPT !.column = f.column, !.value = f.value], "")

SetVisualization ==
    \E a \in VizArgs :
        Called(set_visualization(agent, a.chart_type, a.x_fields, a.y_measures, a.breakdowns,
                                 a.options),
               "set_visualization", [NoArgs EXCEPT !.viz = a], "")

\* build_sql_query(limit): _require_dataset raises without a dataset
BuildQuery ==
    \E limit \in Limits :
        IF agent.dataset = NoDataset
        THEN Called(Raised("RuntimeError", RequireDatasetMessage, agent), "build_sql_query",
                    [NoArgs EXCEPT !.limit = limit], "")
        ELSE Called(Returned(agent), "build_sql_query", [NoArgs EXCEPT !.limit = limit],
                    build_sql_query(agent, limit))

\* AgentState.reset()
Reset == Called(Returned(AgentState), "reset", NoArgs, "")

\* Faulty variant: taking the snapshot empties the filters
DescribeState_consuming ==
    IF agent.dataset = NoDataset
    THEN Called(Raised("RuntimeError", RequireDatasetMessage, agent), "describe_state", NoArgs, "")
    ELSE Called(Returned([agent EXCEPT !.filters = <<>>]), "describe_state", NoArgs, "")

\* describe_state(): _require_dataset raises without a dataset; the snapshot
\* is built from copies and nothing is assigned
DescribeState ==
    IF agent.dataset = NoDataset
    THEN Called(Raised("RuntimeError", RequireDatasetMessage, agent), "describe_state", NoArgs, "")
    ELSE Called(Returned(agent), "describe_state", NoArgs, "")

AgentNext ==
    SelectDataset \/ AddFilter \/ SetVisualization \/ BuildQuery \/ DescribeState \/ Reset

AgentSpec == AgentInit /\ [][AgentNext]_vars

(***************************************************************************)
(* Properties                                                              *)
(***************************************************************************)
\* the stage, the session state and the stored artifact reference
context == <<stage, agent, chart_path>>

\* the step is a call of handle_input(m)
Fed(m) == turn'.call = "handle_input" /\ turn'.input = m

\* the session state of a fresh context, and of a freshly selected dataset
Fresh(dataset) == [dataset |-> dataset, filters |-> <<>>, visualization |-> <<>>,
                   dimensions |-> <<>>, measure_specs |-> <<>>]

\* the input as the machine reads it: trimmed and lower-cased
Read == [m \in Inputs |-> lower(strip(m))]

\* the inputs that are not blank and not a global command
NonCommand ==
    {m \in Inputs : Read[m] \notin {"", "quit", "exit", "help", "?", "reset", "restart"}}

\* C1: from a started session, the inputs "subscribers", "region=India", "done",
\* "chart=bar x=region y=sum:monthly_spend" take the stage through DATASET,
\* FILTERS, VISUALISATION, SUMMARY, ADJUST in that order and end in ADJUST with
\* filters {region: "India"} and a summary whose query has the conjunct
\* region = 'India' in its WHERE clause.
C1_EndToEnd ==
    /\ script = 0 => stage = DATASET
    /\ script = 1 => /\ stage = FILTERS /\ turn.from = DATASET /\ turn.stages = <<FILTERS>>
                     /\ agent.dataset = "subscribers"
    /\ script = 2 => /\ stage = FILTERS /\ turn.from = FILTERS /\ turn.stages = <<>>
                     /\ agent.filters = << <<"region", Scalar(Str("India"))>> >>
    /\ script = 3 => /\ stage = VISUALISATION /\ turn.from = FILTERS
                     /\ turn.stages = <<VISUALISATION>>
    /\ script = 4 => /\ stage = ADJUST /\ turn.from = VISUALISATION
                     /\ turn.stages = <<SUMMARY, ADJUST>>
                     /\ agent.dataset = "subscribers"
                     /\ agent.filters = << <<"region", Scalar(Str("India"))>> >>
                     /\ response.kind = "summary"
                     /\ Contains(response.sql, " WHERE region = 'India' ")

C1_Witness == script = 4 /\ stage = ADJUST /\ response.kind = "summary"

\* C2: in every reachable state `reset` or `restart`, and in stage ADJUST also
\* `again` or `new`, leave a fresh context: stage DATASET, no dataset, empty
\* filters, visualization, dimensions and measure specs, no artifact reference.
C2_ResetRestores ==
    [][\A m \in {"reset", "restart", "again", "new"} :
          ((m \in {"again", "new"} => stage = ADJUST) /\ Fed(m))
          => stage' = DATASET /\ agent' = Fresh(NoDataset) /\ chart_path' = NoChart]_vars

C2_Witness ==
    /\ turn.call = "handle_input" /\ turn.from = ADJUST /\ turn.stages = <<GREETING, DATASET>>
    /\ stage = DATASET /\ agent.dataset = NoDataset /\ chart_path = NoChart

\* C3: in every stage an empty or blank input, and `help`, `?`, `quit`, `exit`
\* in any case and with blanks around, is answered before the stage dispatch
\* and leaves the stage, the session state and the artifact reference as they were.
C3_GlobalFrame ==
    [][\A m \in {"", "   ", "help", "?", "quit", " Exit "} :
          Fed(m)
          => /\ UNCHANGED context
             /\ response'.kind \in {"retry", "help", "goodbye"}
             /\ turn'.stages = <<>> /\ ~turn'.queried /\ ~turn'.rendered]_vars

C3_Witness ==
    /\ response.kind = "goodbye" /\ turn.from = ADJUST /\ stage = ADJUST
    /\ agent.filters # <<>> /\ chart_path # NoChart

\* the catalog names that are a token of the input, whatever its case
NamedDatasets ==
    [m \in Inputs |-> {name \in DOMAIN DATASETS :
                          \E i \in 1..Len(Tokens(lower(m), "")) : Tokens(lower(m), "")[i] = name}]

\* C4: in stage DATASET a non-command input one of whose tokens is a catalog
\* name in any case selects that dataset with empty filters, visualization,
\* dimensions and measures and moves the stage to FILTERS; any other
\* non-command input leaves the stage at DATASET and the session state unchanged.
C4_DatasetStage ==
    [][\A m \in NonCommand :
          (stage = DATASET /\ Fed(m))
          => IF NamedDatasets[m] # {}
             THEN /\ stage' = FILTERS
                  /\ agent'.dataset \in NamedDatasets[m]
                  /\ agent' = Fresh(agent'.dataset)
             ELSE stage' = DATASET /\ agent' = agent]_vars

C4_Witness ==
    /\ turn.from = DATASET /\ stage = FILTERS
    /\ response.kind = "dataset_selected" /\ agent.dataset = "tickets"

\* filters is filters_before with the one key upserted
Upserted(filters, filters_before, key, value) ==
    /\ FilterKeys(filters) = FilterKeys(filters_before) \cup {key}
    /\ Len(filters) = Cardinality(FilterKeys(filters))
    /\ FilterGet(filters, key) = value
    /\ \A k \in FilterKeys(filters_before) \ {key} :
           FilterGet(filters, k) = FilterGet(filters_before, k)

\* C5: in stage FILTERS a non-command input moves the stage to VISUALISATION
\* exactly when it is `done`, `next` or `visual`, and the session state is then
\* unchanged; otherwise the stage stays FILTERS, a text that parses as a filter
\* on a column of the active dataset upserts that one key, and unparseable text
\* or a filter on an unknown column leaves the session state unchanged.
C5_FiltersStage ==
    [][\A m \in NonCommand :
          (stage = FILTERS /\ Fed(m))
          => LET p == ParsedFilter[agent.dataset, Stripped[m]]
             IN  IF Read[m] \in {"done", "next", "visual"}
                 THEN stage' = VISUALISATION /\ agent' = agent
                 ELSE /\ stage' = FILTERS
                      /\ IF p.parsed /\ p.column \in ColumnNames(agent.dataset)
                         THEN /\ Upserted(agent'.filters, agent.filters, p.column, p.value)
                              /\ agent' = [agent EXCEPT !.filters = agent'.filters]
                         ELSE agent' = agent]_vars

C5_Witness ==
    /\ turn.from = FILTERS /\ stage = FILTERS /\ response.kind = "filter_added"
    /\ Len(agent.filters) = 2

\* the input does not parse into a complete directive, or the directive it
\* parses into fails the validation of the session model
DirectiveFails(m) ==
    LET p == ParsedVisualisation[Stripped[m]]
    IN  \/ ~p.parsed
        \/ set_visualization(agent, p.chart_type, p.x_fields, p.y_measures,
                             p.breakdowns, p.options).raised = "ValueError"

\* C6: in stage VISUALISATION an input that does not parse into a complete
\* directive, or that parses and fails validation, leaves the stage, the
\* filters, visualization, dimensions, measure specs and artifact reference
\* unchanged, and neither the query backend nor the renderer is invoked.
C6_VisualisationFailure ==
    [][\A m \in NonCommand :
          (stage = VISUALISATION /\ Fed(m) /\ DirectiveFails(m))
          => UNCHANGED context /\ ~turn'.queried /\ ~turn'.rendered]_vars

C6_Witness ==
    /\ turn.from = VISUALISATION /\ stage = VISUALISATION /\ response.kind = "error"
    /\ agent.filters # <<>>

\* the inputs that hold one of the tokens that mark a visualization directive
WithToken ==
    {m \in Inputs :
        \E token \in {"chart=", "x=", "y=", "metrics=", "dimensions=", "breakdowns="} :
            Contains(Read[m], token)}

\* C7: in stage ADJUST a turn whose text holds a directive token but does not
\* parse into a complete directive, or parses and fails validation, mutates
\* nothing: the stage is still ADJUST and the session state and the artifact
\* reference are as before the turn.
C7_AdjustDirectiveFailure ==
    [][\A m \in WithToken :
          (stage = ADJUST /\ Fed(m) /\ DirectiveFails(m)) => UNCHANGED context]_vars

\* the inputs of the form `filter C=v`, with the column and the value they name
FilterTweaks ==
    { [text |-> "filter region=India", column |-> "region", value |-> "India"],
      [text |-> "filter region=O'Neil", column |-> "region", value |-> "O'Neil"],
      [text |-> "filter category=Billing", column |-> "category", value |-> "Billing"] }

\* C8: in stage ADJUST, for every column C of the active dataset (`category`
\* and the other names ending in x or y included) and every value v, the input
\* `filter C=v` leaves filters[C] = v, re-runs the summary step and leaves the
\* stage at ADJUST.
C8_AdjustFilterTweak ==
    [][\A f \in FilterTweaks :
          (stage = ADJUST /\ f.column \in ColumnNames(agent.dataset) /\ Fed(f.text))
          => /\ stage' = ADJUST
             /\ Upserted(agent'.filters, agent.filters, f.column, Scalar(Str(f.value)))
             /\ turn'.queried]_vars

\* C9 as stated: in stage ADJUST `refresh`, `show`, `render` and `update` re-run
\* the summary step and, whatever the renderer answers, leave the stage, the
\* session state and the artifact reference as they were before the turn.
C9_RefreshChangesNothing ==
    [][\A m \in {"refresh", "show", "render", "update"} :
          (stage = ADJUST /\ Fed(m)) => UNCHANGED context /\ turn'.queried]_vars

\* C9, amended: in stage ADJUST `refresh`, `show`, `render` and `update` re-run
\* the summary step and leave the stage and the session state unchanged; the
\* artifact reference becomes the renderer's answer, the new artifact when one
\* is produced and none when the rendering fails or there is nothing to
\* render, and stays as it was only when the query does not reach the renderer.
C9_RefreshStoresArtifact ==
    [][\A m \in {"refresh", "show", "render", "update"} :
          (stage = ADJUST /\ Fed(m))
          => /\ stage' = ADJUST
             /\ agent' = agent
             /\ turn'.queried
             /\ IF ~turn'.rendered THEN chart_path' = chart_path
                ELSE IF response'.chart = "saved" THEN chart_path' # NoChart
                ELSE response'.chart \in {"warning", "none"} /\ chart_path' = NoChart]_vars

C9_Witness ==
    /\ turn.from = ADJUST /\ turn.stages = <<ADJUST>> /\ stage = ADJUST
    /\ response.kind = "summary" /\ response.text = "" /\ response.chart = "saved"
    /\ chart_path # NoChart

\* the non-command inputs that are not a reset word, not one of the given
\* refresh words, not a directive text and not a `filter ` text
OtherTexts(refresh) ==
    {m \in NonCommand \ WithToken :
        /\ Read[m] \notin {"again", "restart", "reset", "new"} \cup refresh
        /\ ~startswith(Read[m], "filter ")}

OtherTextsAsStated == OtherTexts({"refresh", "show", "render", "update"})

OtherTextsShowChart == OtherTexts({"refresh", "show", "show chart", "render", "update"})

\* the turn changed nothing and reached neither the backend nor the renderer,
\* and `chart` was answered by the stored reference, or by "none yet" without one
Answered(m) ==
    /\ UNCHANGED context
    /\ ~turn'.queried /\ ~turn'.rendered
    /\ Read[m] = "chart"
       => IF chart_path = NoChart THEN response'.kind = "no_chart_yet"
          ELSE response'.kind = "latest_chart" /\ response'.text = chart_path

\* C10 as stated: in stage ADJUST bare `filters`, bare `chart` and any text that
\* is not a reset word, a refresh word (`refresh`, `show`, `render`, `update`),
\* a directive text or a `filter ` text leave the whole context unchanged and
\* reach neither the query backend nor the renderer; `chart` answers "none
\* yet" exactly when no artifact reference is stored and reports it otherwise.
C10_AdjustOtherText ==
    [][\A m \in OtherTextsAsStated : (stage = ADJUST /\ Fed(m)) => Answered(m)]_vars

\* C10, amended: the same, with `show chart` counted among the refresh words.
C10_AdjustOtherTextShowChart ==
    [][\A m \in OtherTextsShowChart : (stage = ADJUST /\ Fed(m)) => Answered(m)]_vars

C10_Witness ==
    /\ turn.from = ADJUST /\ stage = ADJUST /\ turn.stages = <<>>
    /\ response.kind = "latest_chart" /\ response.text = chart_path /\ chart_path # NoChart

(***************************************************************************)
(* Properties of the session model, checked under AgentSpec                *)
(***************************************************************************)
\* the step is a call of that DataAgent method; it returned, or it raised
CalledMethod(call) == turn'.call = call

DidReturn == response'.kind = "returned"

DidRaise == response'.kind # "returned"

\* C11: in every reachable state every key of filters is the name of a column
\* of the selected dataset, and filters is empty when no dataset is selected.
C11_FiltersAreColumns ==
    IF agent.dataset = NoDataset THEN agent.filters = <<>>
    ELSE FilterKeys(agent.filters) \subseteq ColumnNames(agent.dataset)

\* a filter stored on the tickets dataset
C11_Witness ==
    /\ agent.dataset = "tickets"
    /\ Len(agent.filters) = 1
    /\ "category" \in FilterKeys(agent.filters)
    /\ turn.call = "add_filter"

\* the error kinds, told apart by the text of the ValueError
UnknownColumn(text) ==
    \/ startswith(text, "Column '")
    \/ startswith(text, "Unknown dimension columns: ")
    \/ startswith(text, "Unknown breakdown columns: ")

\* C12: with a dataset selected, add_filter(C, v) on a column C of it returns
\* and leaves filters[C] = v, in place of any earlier value for C and with
\* every other entry as it was; on any other column name it raises
\* UnknownColumn.
C12_AddFilter ==
    [][(CalledMethod("add_filter") /\ agent.dataset # NoDataset) =>
           IF turn'.input.column \in ColumnNames(agent.dataset)
           THEN /\ DidReturn
                /\ Upserted(agent'.filters, agent.filters, turn'.input.column, turn'.input.value)
           ELSE /\ response'.kind = "ValueError"
                /\ UnknownColumn(response'.text)]_vars

\* region was filtered, then another column, then region again with three values
C12_Witness ==
    /\ turn.call = "add_filter"
    /\ response.kind = "returned"
    /\ turn.input.column = "region"
    /\ Len(agent.filters) = 2
    /\ agent.filters[1] = <<"region", turn.input.value>>
    /\ Len(turn.input.value.items) = 3

\* C13: from every prior session state a select_dataset(name) that returns
\* stores the named dataset and leaves filters, visualization, dimensions and
\* measure specs all empty.
C13_SelectClears ==
    [][(CalledMethod("select_dataset") /\ DidReturn) =>
           /\ agent'.dataset = turn'.input.name
           /\ agent'.filters = <<>>
           /\ agent'.visualization = EmptyDict
           /\ agent'.dimensions = <<>>
           /\ agent'.measure_specs = <<>>]_vars

\* tickets selected on a state that had filters, a visualization, dimensions
\* and measure specs
C13_Witness ==
    /\ turn.call = "select_dataset"
    /\ response.kind = "returned"
    /\ turn.input.loaded
    /\ agent = Fresh("tickets")

\* C14: a select_dataset, add_filter or set_visualization call that raises a
\* validation error (unknown dataset, unknown column, empty axis, missing
\* measures, invalid aggregation, also on the last measure token after earlier
\* ones were accepted) leaves the session state exactly as it was.
C14_FailureKeepsState ==
    [][(turn'.call \in {"select_dataset", "add_filter", "set_visualization"}
            /\ response'.kind = "ValueError") => agent' = agent]_vars

\* the last measure token is refused on a state that had filters, a
\* visualization, dimensions and measure specs
C14_Witness ==
    /\ turn.call = "set_visualization"
    /\ response.kind = "ValueError"
    /\ turn.input.viz.y_measures = <<"sum:monthly_spend", "avg:bogus">>
    /\ turn.input.loaded
    /\ Loaded(agent)

\* the alias of the i-th y-measure token: its lower-cased aggregation and its
\* column, numbered from the second occurrence of that pair on
OccurrenceAlias(tokens, i) ==
    LET pair(j) == <<lower(MeasureToken(tokens[j]).agg), MeasureToken(tokens[j]).column>>
        k       == Cardinality({j \in 1..i : pair(j) = pair(i)})
        base    == pair(i)[1] \o "_" \o pair(i)[2]
    IN  IF k = 1 THEN base ELSE base \o "_" \o NatToStr(k)

\* C15: in every reachable state the aliases of the stored measure specs are
\* pairwise distinct, and after a set_visualization that returned the alias
\* of the k-th occurrence of an (aggregation, column) pair among the y-measure
\* tokens is {aggregation_lower}_{column}, followed by _{k} from the second
\* occurrence on.
C15_Aliases ==
    /\ \A i, j \in 1..Len(agent.measure_specs) :
           agent.measure_specs[i].alias = agent.measure_specs[j].alias => i = j
    /\ (turn.call = "set_visualization" /\ response.kind = "returned") =>
           /\ Len(agent.measure_specs) = Len(turn.input.viz.y_measures)
           /\ \A i \in 1..Len(agent.measure_specs) :
                  agent.measure_specs[i].alias = OccurrenceAlias(turn.input.viz.y_measures, i)

\* SUM:monthly_spend, sum: monthly_spend, Sum:monthly_spend and count:user_id
C15_Witness ==
    /\ turn.call = "set_visualization"
    /\ response.kind = "returned"
    /\ Aliases(agent.measure_specs)
           = <<"sum_monthly_spend", "sum_monthly_spend_2", "sum_monthly_spend_3", "count_user_id">>

\* d holds each entry of s once, in the order of the first occurrences in s
FirstOccurrences(d, s) ==
    LET first(e) == CHOOSE i \in 1..Len(s) : s[i] = e /\ \A j \in 1..(i - 1) : s[j] # e
    IN  /\ {d[i] : i \in 1..Len(d)} = {s[i] : i \in 1..Len(s)}
        /\ \A i, j \in 1..Len(d) : i < j => first(d[i]) < first(d[j])

\* C16: in every reachable state dimensions is the first-occurrence
\* de-duplication of the stored visualization's x_fields followed by its
\* breakdowns, and is empty when no visualization is stored.
C16_Dimensions ==
    IF agent.visualization = EmptyDict THEN agent.dimensions = <<>>
    ELSE FirstOccurrences(agent.dimensions,
                          agent.visualization.x_fields \o agent.visualization.breakdowns)

\* x = region, plan_type with breakdowns = region was stored and a later
\* set_visualization was refused
C16_Witness ==
    /\ turn.call = "set_visualization"
    /\ response.kind = "ValueError"
    /\ agent.visualization # EmptyDict
    /\ agent.visualization.x_fields = <<"region", "plan_type">>
    /\ agent.visualization.breakdowns = <<"region">>
    /\ agent.dimensions = <<"region", "plan_type">>

\* the entries of a list
Entries(fields) == {fields[i] : i \in 1..Len(fields)}

\* C17: set_visualization with x_fields and y_measures given and an x_fields
\* or breakdowns entry that is not a column of the dataset raises
\* UnknownColumn, and the error text lists every such entry: all unknown
\* x_fields entries and all unknown breakdowns entries.
C17_ListsEveryUnknown ==
    [][(/\ CalledMethod("set_visualization")
        /\ agent.dataset # NoDataset
        /\ turn'.input.viz.x_fields # <<>>
        /\ turn'.input.viz.y_measures # <<>>
        /\ (Entries(turn'.input.viz.x_fields) \cup Entries(turn'.input.viz.breakdowns))
               \ ColumnNames(agent.dataset) # {})
           => /\ response'.kind = "ValueError"
              /\ UnknownColumn(response'.text)
              /\ \A e \in (Entries(turn'.input.viz.x_fields)
                                \cup Entries(turn'.input.viz.breakdowns))
                               \ ColumnNames(agent.dataset) :
                     Contains(response'.text, e)]_vars

EmptyAxis(text) == startswith(text, "At least one dimension must be provided")

MissingMeasures(text) == startswith(text, "Specify at least one measure")

InvalidAggregation(text) == startswith(text, "Aggregation must be one of")

\* a y-measure token split at its first colon and trimmed: the lower-cased
\* aggregation (sum when there is no colon) and the column
TokenParts(raw) ==
    LET i == FindChar(raw, ":")
    IN  IF i = 0 THEN [agg |-> "sum", column |-> strip(raw)]
        ELSE [agg |-> lower(strip(SubSeq(raw, 1, i - 1))),
              column |-> strip(SubSeq(raw, i + 1, Len(raw)))]

\* the y-measure tokens that set_visualization refuses on that dataset
BadTokens(ds, tokens) ==
    {i \in 1..Len(tokens) :
         \/ TokenParts(tokens[i]).column \notin ColumnNames(ds)
         \/ TokenParts(tokens[i]).agg \notin {"sum", "avg", "count", "min", "max"}}

\* C18: with a dataset selected set_visualization raises EmptyAxis when
\* x_fields is empty; else MissingMeasures when y_measures is empty; else
\* UnknownColumn when an x_fields or breakdowns entry is not a column; else, at
\* the first y-measure token that has an unknown column or an aggregation
\* outside sum, avg, count, min, max, UnknownColumn if its column is unknown
\* and InvalidAggregation if not; else it returns, with one measure spec per
\* token in token order.
C18_VisualizationOutcome ==
    [][(CalledMethod("set_visualization") /\ agent.dataset # NoDataset) =>
           LET a    == turn'.input.viz
               cols == ColumnNames(agent.dataset)
               bad  == BadTokens(agent.dataset, a.y_measures)
               text == response'.text
           IN  IF a.x_fields = <<>> THEN DidRaise /\ EmptyAxis(text)
               ELSE IF a.y_measures = <<>> THEN DidRaise /\ MissingMeasures(text)
               ELSE IF (Entries(a.x_fields) \cup Entries(a.breakdowns)) \ cols # {}
               THEN DidRaise /\ UnknownColumn(text)
               ELSE IF bad # {}
               THEN LET first == CHOOSE i \in bad : \A j \in bad : i <= j
                    IN  /\ DidRaise
                        /\ IF TokenParts(a.y_measures[first]).column \notin cols
                           THEN UnknownColumn(text) ELSE InvalidAggregation(text)
               ELSE /\ DidReturn
                    /\ Len(agent'.measure_specs) = Len(a.y_measures)
                    /\ \A i \in 1..Len(a.y_measures) :
                           /\ agent'.measure_specs[i].column = TokenParts(a.y_measures[i]).column
                           /\ agent'.measure_specs[i].aggregation
                                  = upper(TokenParts(a.y_measures[i]).agg)]_vars

\* median:monthly_spend is refused for its aggregation before sum:bogus is looked at
C18_Witness ==
    /\ turn.call = "set_visualization"
    /\ turn.input.viz.y_measures = <<"median:monthly_spend", "sum:bogus">>
    /\ agent.dataset = "subscribers"
    /\ response.kind = "ValueError"
    /\ InvalidAggregation(response.text)

\* the statement for a session state and a limit: the SELECT list, the table,
\* the WHERE clause, the grouping and ordering, the limit
Statement(columns, table, where, ordering, limit) ==
    "SELECT " \o columns \o " FROM " \o table \o where \o ordering
        \o " LIMIT " \o NatToStr(limit) \o ";"

ExpectedQuery(st, limit) ==
    LET D        == join(", ", st.dimensions)
        measures == [i \in 1..Len(st.measure_specs) |->
                        st.measure_specs[i].aggregation \o "(" \o st.measure_specs[i].column
                            \o ") AS " \o st.measure_specs[i].alias]
        where    == IF st.filters = <<>> THEN "" ELSE build_where_clause(st)
    IN  IF st.measure_specs # <<>>
        THEN Statement(join(", ", st.dimensions \o measures), DATASETS[st.dataset].table, where,
                       IF st.dimensions # <<>> THEN " GROUP BY " \o D \o " ORDER BY " \o D ELSE "",
                       limit)
        ELSE Statement("*", DATASETS[st.dataset].table, where,
                       IF DATASETS[st.dataset].default_order_by # ""
                       THEN " ORDER BY " \o DATASETS[st.dataset].default_order_by ELSE "",
                       limit)

\* C19: with a dataset selected build_sql_query(limit) returns, when measure
\* specs are stored, SELECT of the dimensions followed by AGG(column) AS alias
\* per measure, FROM the table, the WHERE clause if there are filters, GROUP BY
\* and ORDER BY the dimensions when there are any, and LIMIT limit; without
\* measure specs SELECT * FROM the table, the WHERE clause if there are
\* filters, ORDER BY the dataset's default ordering, no GROUP BY, and LIMIT
\* limit.  The statement ends with a semicolon.
C19_QueryShape ==
    (turn.call = "build_sql_query" /\ response.kind = "returned") =>
        /\ response.sql = ExpectedQuery(agent, turn.input.limit)
        /\ (agent.filters = <<>>) = ~Contains(response.sql, " WHERE ")
        /\ (agent.measure_specs = <<>>) => ~Contains(response.sql, " GROUP BY ")

\* two filters, two dimensions, two measures and a limit of 5
C19_Witness ==
    /\ turn.call = "build_sql_query"
    /\ response.sql = "SELECT region, plan_type, SUM(monthly_spend) AS sum_monthly_spend, "
                          \o "SUM(monthly_spend) AS sum_monthly_spend_2 FROM subscribers "
                          \o "WHERE join_date BETWEEN '2025-10-01' AND '2025-11-01' "
                          \o "AND region = 'India' "
                          \o "GROUP BY region, plan_type ORDER BY region, plan_type LIMIT 5;"

\* the filter texts a stored value can have been parsed from
TextsOf(value) ==
    {t \in FilterTexts : \E ds \in {"subscribers", "tickets"} : _parse_filter(ds, t).value = value}

\* the conjunct for a filter by the kind of its value: a Range comes from
\* `col between a and b`, a Set from `col=v1,...,vn` with n >= 2, a Scalar
\* from `col=v`
ExpectedConjunct(column, value) ==
    LET items  == value.items
        quoted == [i \in 1..Len(items) |-> "'" \o items[i].text \o "'"]
    IN  IF \E t \in TextsOf(value) : Contains(lower(t), " between ")
        THEN column \o " BETWEEN " \o quoted[1] \o " AND " \o quoted[2]
        ELSE IF Len(items) >= 2 THEN column \o " IN (" \o join(", ", quoted) \o ")"
        ELSE IF items[1].type = "str" THEN column \o " = " \o quoted[1]
        ELSE column \o " = " \o items[1].text

\* C20: the WHERE clause has one conjunct per filter, joined with AND: a
\* Range compiles to col BETWEEN 'a' AND 'b', a Set of two or more values to
\* col IN ('v1', ..., 'vn'), a string Scalar to col = 'v' and a numeric
\* Scalar to col = v; with no filters there is no WHERE clause.
C20_WhereClause ==
    build_where_clause(agent) =
        IF agent.filters = <<>> THEN ""
        ELSE " WHERE " \o join(" AND ", [i \in 1..Len(agent.filters) |->
                                            ExpectedConjunct(agent.filters[i][1], agent.filters[i][2])])

\* C21: with a dataset selected describe_state() returns and changes no part
\* of the session state, and a describe_state() that directly follows
\* another one returns the same snapshot (dataset name, filters,
\* visualization, dimensions, metrics, query).
C21_DescribeState ==
    [][(CalledMethod("describe_state") /\ agent.dataset # NoDataset) =>
           /\ DidReturn
           /\ agent' = agent
           /\ DOMAIN response'.snapshot
                  = {"dataset", "filters", "visualization", "dimensions", "metrics", "sql"}
           /\ turn.call = "describe_state" => response'.snapshot = response.snapshot]_vars

\* the second of two snapshots of a state with filters, a visualization,
\* dimensions and measure specs
C21_Witness ==
    /\ turn.call = "describe_state"
    /\ turn.input.repeated
    /\ response.kind = "returned"
    /\ Loaded(agent)
    /\ response.snapshot.filters = agent.filters
    /\ Contains(response.snapshot.sql, " GROUP BY ")

(***************************************************************************)
(* Properties of the dialogue, checked under Spec                          *)
(***************************************************************************)
\* C22: whatever the state, the input text and the answers of the query
\* backend and of the renderer, handle_input returns a response text, no
\* error escapes the turn, and the response that ends the conversation is
\* given to `quit` and `exit` only.
C22_NoErrorEscapes ==
    [][\A m \in Inputs : Fed(m) =>
           /\ response'.kind # "exception"
           /\ (response'.kind = "goodbye") = (Read[m] \in {"quit", "exit"})]_vars

\* C23: whenever render_chart raises in the summary step of a turn, the turn
\* still returns the summary: the stored artifact reference is cleared, the
\* stage is ADJUST, the session state is the one the turn leaves whatever the
\* renderer does, and the response reports the failure; whenever render_chart
\* returns a path, that path is the stored artifact reference.
C23_RenderFailure ==
    [][\A m \in Inputs : Fed(m) =>
           /\ turn'.answer = "raised" =>
                  /\ response'.kind = "summary"
                  /\ response'.chart = "warning"
                  /\ chart_path' = NoChart
                  /\ stage' = ADJUST
                  /\ \A o \in handle_input(agent, stage, chart_path, plt_available, m) :
                         o.agent = agent'
           /\ turn'.answer = "path" =>
                  /\ response'.kind = "summary"
                  /\ response'.chart = "saved"
                  /\ chart_path' # NoChart
                  /\ startswith(chart_path', "chart_")]_vars

\* C24: whenever the query of a summary step returns no rows, or there are no
\* measures, render_chart returns None and the summary reports that no chart
\* was generated, never a render warning, whether or not matplotlib is
\* installed.
C24_NothingToRender ==
    [][\A m \in Inputs :
           (Fed(m) /\ turn'.rendered /\ (turn'.rows = "empty" \/ agent'.measure_specs = <<>>)) =>
               /\ turn'.answer = "nothing"
               /\ response'.chart = "none"]_vars

\* [A-Za-z_][\w]*
IsIdentifier(s) ==
    /\ s # ""
    /\ Head(s) \in UpperSet \cup LowerSet \cup {"_"}
    /\ \A i \in 1..Len(s) : IsWordChar(Ch(s, i))

\* the text is `<column> between <start> and <end>`, or `<column>=<values>`
\* or `<column>:<values>` with at least one value, <column> an identifier
FilterForm(text) ==
    LET words == Tokens(text, "")
        sep   == IF Contains(text, "=") THEN "=" ELSE ":"
    IN  \/ /\ Len(words) = 5
           /\ IsIdentifier(words[1])
           /\ lower(words[2]) = "between"
           /\ lower(words[4]) = "and"
        \/ /\ Contains(text, sep)
           /\ IsIdentifier(strip(split1(text, sep)[1]))
           /\ comma_list(split1(text, sep)[2]) # <<>>

HasFilterForm == [m \in Inputs |-> FilterForm(Stripped[m])]

\* C25: with a dataset selected the filter parser returns a (column, value)
\* parse exactly for the texts `<column> between <start> and <end>`,
\* `<column>=<values>` and `<column>:<values>` with <column> an identifier;
\* on every other text, such as one with whitespace left of the `=`, it
\* returns no parse and the filtering stage answers with the usage hint, not
\* with a validation error.
C25_FilterParser ==
    [][\A m \in NonCommand :
           (stage = FILTERS /\ Fed(m) /\ Read[m] \notin {"done", "next", "visual"}) =>
               /\ ParsedFilter[agent.dataset, Stripped[m]].parsed = HasFilterForm[m]
               /\ (response'.kind = "filter_hint") = ~HasFilterForm[m]]_vars

\* the key=value tokens of the lower-cased input, a later one replacing an
\* earlier one with the same key
KeyValues == [m \in Inputs |-> DictOf(FindPairs(lower(Stripped[m])))]

\* the value of the first of the two keys that is among the tokens
ValueOf(m, a, b) == IF a \in DOMAIN KeyValues[m] THEN KeyValues[m][a] ELSE KeyValues[m][b]

\* the tokens hold a chart type out of the five, an x key and a y key
IsDirective ==
    [m \in Inputs |->
        /\ {"chart", "type"} \cap DOMAIN KeyValues[m] # {}
        /\ ValueOf(m, "chart", "type") \in {"bar", "line", "pie", "heatmap", "custom"}
        /\ {"x", "dimensions"} \cap DOMAIN KeyValues[m] # {}
        /\ {"y", "metrics"} \cap DOMAIN KeyValues[m] # {}]

\* the tokens that are passed through as options
OptionsOf(m) ==
    [k \in DOMAIN KeyValues[m]
               \ {"chart", "type", "x", "dimensions", "y", "metrics", "breakdowns", "group_by"}
        |-> KeyValues[m][k]]

\* C26: the directive parser returns a payload exactly when the key=value
\* tokens of the lower-cased text hold a chart type (chart, else type) out of
\* bar, line, pie, heatmap, custom, an x key (x or dimensions) and a y key (y
\* or metrics), and no parse otherwise, which the visualisation stage answers
\* with its usage hint; in the payload x and y are the non-empty comma-split
\* items in order and every other key outside the reserved ones is an option
\* with its value; a payload that is accepted is stored as it was parsed.
C26_DirectiveParser ==
    [][\A m \in NonCommand :
           (stage = VISUALISATION /\ Fed(m)) =>
               LET payload == ParsedVisualisation[Stripped[m]]
               IN  /\ payload.parsed = IsDirective[m]
                   /\ (response'.kind = "visualisation_hint") = ~IsDirective[m]
                   /\ IsDirective[m] =>
                          /\ payload.chart_type = ValueOf(m, "chart", "type")
                          /\ payload.x_fields = comma_list(ValueOf(m, "x", "dimensions"))
                          /\ payload.y_measures = comma_list(ValueOf(m, "y", "metrics"))
                          /\ payload.options = OptionsOf(m)
                   /\ response'.kind = "summary" =>
                          /\ agent'.visualization.chart_type = payload.chart_type
                          /\ agent'.visualization.x_fields = payload.x_fields
                          /\ IF OptionsOf(m) = EmptyDict
                             THEN "options" \notin DOMAIN agent'.visualization
                             ELSE agent'.visualization.options = OptionsOf(m)]_vars

\* the directive written with type, dimensions, metrics and group_by, in
\* mixed case and with an empty item in the x list, was accepted
C26_Witness ==
    /\ turn.call = "handle_input"
    /\ turn.from = VISUALISATION
    /\ turn.input = "Type=Heatmap dimensions=region,,plan_type metrics=avg:monthly_spend group_by=status"
    /\ response.kind = "summary"
    /\ agent.visualization.chart_type = "heatmap"
    /\ agent.visualization.x_fields = <<"region", "plan_type">>
    /\ agent.visualization.breakdowns = <<"status">>
    /\ agent.measure_specs = <<MeasureSpec("monthly_spend", "AVG", "avg_monthly_spend")>>

\* C27: SUMMARY is transient: whatever the query backend and the renderer
\* do, the stage found between two turns is never SUMMARY, so no turn is ever
\* dispatched in stage SUMMARY.
C27_SummaryTransient == stage # SUMMARY

Rank == (GREETING :> 0) @@ (DATASET :> 1) @@ (FILTERS :> 2) @@ (VISUALISATION :> 3)
            @@ (SUMMARY :> 4) @@ (ADJUST :> 5)

\* the input is a reset command in that stage
ResetTyped(m, stg) ==
    \/ Read[m] \in {"reset", "restart"}
    \/ stg = ADJUST /\ Read[m] \in {"again", "new"}

\* C30: a turn whose input is no reset command (reset, restart, and in ADJUST
\* again and new) never moves the stage backwards in the order GREETING,
\* DATASET, FILTERS, VISUALISATION, SUMMARY, ADJUST, except from ADJUST to
\* VISUALISATION on a text that holds a directive token, and never changes a
\* dataset that is selected.
C30_StageOrder ==
    [][\A m \in Inputs :
           (Fed(m) /\ ~ResetTyped(m, stage)) =>
               /\ \/ Rank[stage'] >= Rank[stage]
                  \/ /\ stage = ADJUST
                     /\ stage' = VISUALISATION
                     /\ HasDirectiveToken[Stripped[m]]
               /\ agent.dataset # NoDataset => agent'.dataset = agent.dataset]_vars

(***************************************************************************)
(* Further properties of the session model, checked under AgentSpec        *)
(***************************************************************************)
\* C31: a set_visualization that returns leaves the selected dataset and the
\* filters as they were, and an add_filter that returns leaves the dataset,
\* the visualization, the dimensions and the measure specs as they were.
C31_FrameOfSetters ==
    [][/\ (CalledMethod("set_visualization") /\ DidReturn) =>
              /\ agent'.dataset = agent.dataset
              /\ agent'.filters = agent.filters
       /\ (CalledMethod("add_filter") /\ DidReturn) =>
              /\ agent'.dataset = agent.dataset
              /\ agent'.visualization = agent.visualization
              /\ agent'.dimensions = agent.dimensions
              /\ agent'.measure_specs = agent.measure_specs]_vars

\* add_filter stored a second filter on a state that had a chart definition,
\* and the chart definition is still there
C31_Witness ==
    /\ turn.call = "add_filter"
    /\ response.kind = "returned"
    /\ turn.input.loaded
    /\ Len(agent.filters) = 2
    /\ agent.visualization # EmptyDict
    /\ agent.measure_specs # <<>>

\* In the dialogue: a turn in ADJUST whose text holds a directive token keeps
\* the filters, and a turn in ADJUST whose text is a filter tweak keeps the
\* visualization, the dimensions and the measure specs.
AdjustKeepsTheOtherHalf ==
    [][\A m \in Inputs :
           (Fed(m) /\ stage = ADJUST /\ ~ResetTyped(m, stage)) =>
               /\ HasDirectiveToken[Stripped[m]] => agent'.filters = agent.filters
               /\ agent'.filters # agent.filters =>
                      /\ agent'.visualization = agent.visualization
                      /\ agent'.dimensions = agent.dimensions
                      /\ agent'.measure_specs = agent.measure_specs]_vars

(***************************************************************************)
(* Further properties of the dialogue, checked under Spec                  *)
(***************************************************************************)
\* C32: while the stage is GREETING, a handle_input whose text is not reset or
\* restart leaves the stage at GREETING and the agent and the artifact
\* reference as they were; and a step that leaves GREETING is start() or a
\* handle_input of reset or restart, and sets the stage to DATASET.
C32_GreetingHolds ==
    [][stage = GREETING =>
           /\ \A m \in Inputs :
                  (Fed(m) /\ Read[m] \notin {"reset", "restart"}) =>
                      /\ stage' = GREETING
                      /\ agent' = agent
                      /\ chart_path' = chart_path
           /\ stage' # GREETING =>
                  /\ stage' = DATASET
                  /\ \/ turn'.call = "start"
                     \/ \E m \in Inputs : Fed(m) /\ Read[m] \in {"reset", "restart"}]_vars

\* a dataset name was typed before start() and nothing was selected
C32_Witness ==
    /\ turn.call = "handle_input"
    /\ turn.from = GREETING
    /\ turn.input = "subscribers"
    /\ stage = GREETING
    /\ agent.dataset = NoDataset
    /\ response.kind = "begin"

(***************************************************************************)
(* The order of the WHERE clause, checked under AgentSpec                  *)
(***************************************************************************)
\* the filtered columns, in the order of the filters
FilterOrder(filters) == [i \in 1..Len(filters) |-> filters[i][1]]

\* the WHERE clause whose conjuncts are the filters on these columns, in the
\* order of the columns
WhereInOrder(columns, filters) ==
    IF columns = <<>> THEN ""
    ELSE " WHERE " \o join(" AND ", [i \in 1..Len(columns) |->
                                        Clause(columns[i], FilterGet(filters, columns[i]))])

\* C33: the conjuncts of the compiled WHERE clause are in the order in which
\* their columns were first filtered since the last dataset selection: an
\* add_filter that returns on a column not yet filtered puts its conjunct
\* last, one on a column already filtered keeps the order of the columns and
\* compiles the new value in the old place, a select_dataset that returns
\* leaves no conjunct, reset leaves none, and every other call leaves the
\* clause as it was.
C33_WhereOrder ==
    [][LET column == turn'.input.column
           before == FilterOrder(agent.filters)
           clause == build_where_clause(agent')
       IN  /\ (CalledMethod("add_filter") /\ DidReturn) =>
                  /\ FilterGet(agent'.filters, column) = turn'.input.value
                  /\ \A c \in FilterKeys(agent.filters) \ {column} :
                         FilterGet(agent'.filters, c) = FilterGet(agent.filters, c)
                  /\ clause = WhereInOrder(IF column \in FilterKeys(agent.filters)
                                           THEN before ELSE Append(before, column),
                                           agent'.filters)
           /\ (CalledMethod("add_filter") /\ DidRaise) => clause = build_where_clause(agent)
           /\ (CalledMethod("select_dataset") /\ DidReturn) => clause = ""
           /\ CalledMethod("reset") => clause = ""
           /\ (\/ CalledMethod("select_dataset") /\ DidRaise
               \/ CalledMethod("set_visualization")
               \/ CalledMethod("build_sql_query")
               \/ CalledMethod("describe_state")) => clause = build_where_clause(agent)]_vars

\* add_filter was called on the column filtered first of two, and its value
\* is compiled in the first conjunct
C33_Witness ==
    /\ turn.call = "add_filter"
    /\ response.kind = "returned"
    /\ Len(agent.filters) = 2
    /\ agent.filters[1] = <<turn.input.column, turn.input.value>>
    /\ turn.input.value.kind = "tuple"
    /\ agent.filters[2][1] = "monthly_spend"

====
